---- MODULE Spec2Model ----
(***************************************************************************)
(* gpuOwL command line parser: struct Args of args.h.                      *)
(*                                                                         *)
(* The model follows Args::parse token by token.  The argument vector is   *)
(* an input of the call: argc is fixed when the call starts and every      *)
(* token is drawn from Tokens at the moment the code reads argv[i], then   *)
(* kept in argv, so that a state holds the tokens read so far.             *)
(***************************************************************************)
EXTENDS Integers, Sequences, FiniteSets, TLC

\* ---------------------------------------------------------------- bounds
\* Most tokens after the program name (argc <= MaxArgs + 1).
MaxArgs == 4
\* Most devices the enumeration reports.
MaxDevices == 1

\* ------------------------------------------------------ program constants
DEFAULT_LOGSTEP == 20000
\* int is 32 bits wide: the largest value of logStep, saveStep, checkStep.
INT_MAX == 2147483647
\* Half-word base used to compute 32-bit two's complement arithmetic.
HALF == 65536
\* Capacity of the device array of the help branch.
MAX_HELP_DEVICES == 16
\* Factors of the derived defaults.
SAVE_FACTOR == 500
CHECK_FACTOR == 10

INT_MIN == -INT_MAX - 1

\* ------------------------------------------------------------ the inputs
\* argv[0]: never read by parse.
ProgName == "gpuowl"

FlagTokens ==
  {"-h", "--help", "-logstep", "-savestep", "-checkstep", "-uid", "-supersafe",
   "-cl", "-selftest", "-time", "-legacy", "-device"}

\* Tokens an argument vector is made of: every flag, the literal of -time,
\* an unknown flag, and value tokens (zero, small, negative, non-numeric,
\* numeric prefix, large enough to overflow 500*L and 10*L, out of int range,
\* a uid).
Tokens ==
  FlagTokens \cup
  {"kernels", "-bogus", "0", "1", "7", "-3", "abc", " +12x",
   "300000000", "2147483648", "alice/box1"}

\* ------------------------------------------------- 32-bit int arithmetic
\* The bit pattern of the int a as two 16-bit halves.
Halves(a) == [hi |-> (a \div HALF) % HALF, lo |-> a % HALF]

\* The int whose bit pattern is (hi, lo).
ToInt(hi, lo) == IF hi >= HALF \div 2 THEN (hi - HALF) * HALF + lo ELSE hi * HALF + lo

\* a * c + d on bit patterns, modulo 2^32, for 0 <= c <= 500 and 0 <= d <= 9;
\* carry tells whether the mathematical result needed more than 32 bits.
MulAddHalves(h, c, d) ==
  LET l  == h.lo * c + d
      hh == h.hi * c + (l \div HALF)
  IN  [hi |-> hh % HALF, lo |-> l % HALF, carry |-> hh >= HALF]

\* Does the product of the positive int a and the factor c fit an int?
MulFits(a, c) == a <= INT_MAX \div c

\* The product a * c truncated to 32 bits (two's complement wrap-around).
MulWrap(a, c) ==
  LET r == MulAddHalves(Halves(a), c, 0) IN ToInt(r.hi, r.lo)

\* Signed overflow of int multiplication is undefined: the values the
\* expression a * c may yield.  Within range it is the product; out of range
\* it is the wrapped product or any other int, represented by the extremes
\* and zero.
MulOutcomes(a, c) ==
  IF MulFits(a, c) THEN {a * c}
  ELSE {MulWrap(a, c), INT_MIN, 0, INT_MAX}

\* a % b of C for b > 0: the remainder has the sign of the dividend.
CRem(a, b) == IF a >= 0 THEN a % b ELSE -((((-(a + 1)) % b) + 1) % b)

\* ------------------------------------------------------------------ atoi
Char(s, k) == SubSeq(s, k, k)

IsSpace(c) == c \in {" ", "\t", "\n", "\r", "\f"}

IsDigit(c) == c \in {"0", "1", "2", "3", "4", "5", "6", "7", "8", "9"}

DigitVal(c) ==
  CASE c = "0" -> 0 [] c = "1" -> 1 [] c = "2" -> 2 [] c = "3" -> 3 [] c = "4" -> 4
    [] c = "5" -> 5 [] c = "6" -> 6 [] c = "7" -> 7 [] c = "8" -> 8 [] c = "9" -> 9

\* Index of the first character of s at or after k that is not white space.
RECURSIVE SkipSpace(_, _)
SkipSpace(s, k) ==
  IF k <= Len(s) /\ IsSpace(Char(s, k)) THEN SkipSpace(s, k + 1) ELSE k

\* The decimal digits of s from k on, accumulated into the 32-bit pattern acc;
\* acc.big records that the magnitude no longer fits 32 bits.
RECURSIVE AtoiDigits(_, _, _)
AtoiDigits(s, k, acc) ==
  IF k <= Len(s) /\ IsDigit(Char(s, k))
  THEN LET r == MulAddHalves(acc, 10, DigitVal(Char(s, k)))
       IN  AtoiDigits(s, k + 1, [hi |-> r.hi, lo |-> r.lo, big |-> acc.big \/ r.carry])
  ELSE acc

\* -x truncated to 32 bits.
Neg32(x) == IF x = INT_MIN THEN INT_MIN ELSE -x

\* atoi(s): optional white space, an optional sign, then the longest run of
\* decimal digits; 0 when there is none.  A value outside the range of int is
\* undefined behaviour: the C library either truncates the converted long to
\* 32 bits or saturates at the end of the range.
AtoiOutcomes(s) ==
  LET k0    == SkipSpace(s, 1)
      sign  == IF k0 <= Len(s) /\ Char(s, k0) \in {"-", "+"} THEN Char(s, k0) ELSE ""
      k1    == IF sign = "" THEN k0 ELSE k0 + 1
      m     == AtoiDigits(s, k1, [hi |-> 0, lo |-> 0, big |-> FALSE])
      neg   == sign = "-"
      top   == HALF \div 2
      over  == \/ m.big
               \/ IF neg THEN m.hi > top \/ (m.hi = top /\ m.lo > 0) ELSE m.hi >= top
      trunc == IF neg THEN Neg32(ToInt(m.hi, m.lo)) ELSE ToInt(m.hi, m.lo)
  IN  IF over THEN {trunc, IF neg THEN INT_MIN ELSE INT_MAX} ELSE {trunc}

\* strcmp(a, b) == 0.
StrEq(a, b) == a = b

\* ----------------------------------------------------------------- state
VARIABLES
  argc,         \* number of entries of argv, the program name included
  argv,         \* argv[0 .. k]: the tokens read so far (argv[0] is never read)
  i,            \* the loop index of parse
  pc,           \* Scanning, Normalizing, Succeeded, Failed, HelpPrinted, Aborted
  ret,          \* what parse returned: "true" or "false" ("none" while it runs)
  clArgs, uid, logStep, saveStep, checkStep, device,
  timeKernels, selfTest, useLegacy, safe,
  nDevices,     \* what the device enumeration reports
  out,          \* the calls of log(), in order
  scanned       \* history: one record per loop iteration (flag, value, atoi)

fields == <<clArgs, uid, logStep, saveStep, checkStep, device,
            timeKernels, selfTest, useLegacy, safe>>

vars == <<argc, argv, i, pc, ret, clArgs, uid, logStep, saveStep, checkStep, device,
          timeKernels, selfTest, useLegacy, safe, nDevices, out, scanned>>

\* ------------------------------------------------------------ the logger
\* A call log(fmt, args...).
LogLine(fmt, args) == [fmt |-> fmt, args |-> args]

FmtUsage        == "Command line options: ... -device <N> : select specific device among:\n"
FmtDevice       == "    %d : %s\n"
FmtFiles        == "\nFiles used by gpuOwL: ...\n"
FmtWorktodo     == "\nThe lines in worktodo.txt must be of one of these forms: ...\n"
FmtInvalidLog   == "invalid -logstep '%s'\n"
FmtExpectsLog   == "-logstep expects <N> argument\n"
FmtInvalidSave  == "invalid -savestep '%s'\n"
FmtExpectsSave  == "-savestep expects <N> argument\n"
FmtInvalidCheck == "invalid -checkstep '%s'\n"
FmtExpectsCheck == "-checkstep expects <N> argument\n"
FmtExpectsUid   == "-uid expects userName/computerName\n"
FmtExpectsCl    == "-cl expects options string to pass to CL compiler\n"
FmtExpectsTime  == "-time expects 'kernels'\n"
FmtInvalidDev   == "invalid -device %d (must be between [0, %d]\n"
FmtExpectsDev   == "-device expects <N> argument\n"
FmtUnknown      == "Argument '%s' not understood\n"
FmtIgnoreTime   == "Ignoring time kernels because logStep == 1\n"
FmtConfig       == "Config: -logstep %d -savestep %d -checkstep %d%s\n"

\* ---------------------------------------------------- device enumeration
\* getNumberOfDevices().
getNumberOfDevices == nDevices

\* getDeviceIDs(false, size, devices): the number of handles written.
getDeviceIDs(size) == IF nDevices < size THEN nDevices ELSE size

\* getDeviceInfo(devices[d], ...): the description of device d.
getDeviceInfo(d) == "device info"

\* ------------------------------------------------------------ Args::Args
Init ==
  /\ argc \in 1 .. (MaxArgs + 1)
  /\ argv = [k \in {0} |-> ProgName]
  /\ i = 1
  /\ pc = "Scanning"
  /\ ret = "none"
  /\ clArgs = ""
  /\ uid = ""
  /\ logStep = DEFAULT_LOGSTEP
  /\ saveStep = 0
  /\ checkStep = 0
  /\ device = -1
  /\ timeKernels = FALSE
  /\ selfTest = FALSE
  /\ useLegacy = FALSE
  /\ safe = FALSE
  /\ nDevices \in 0 .. MaxDevices
  /\ out = <<>>
  /\ scanned = <<>>

\* ----------------------------------------------------------- Args::parse
\* argv after the code has read the token tok at index k.
ReadArg(a, k, tok) == [j \in 0 .. k |-> IF j = k THEN tok ELSE a[j]]

\* One record of the history: the flag at index at, and, when the iteration
\* read a value token, that token and what atoi made of it.
Unit(at, flag, hasVal, tok, num) ==
  [at |-> at, flag |-> flag, hasVal |-> hasVal, tok |-> tok, num |-> num]

\* Fault variant of Fail: the diagnostic is not written.
FailSilent(line) ==
  /\ out' = out
  /\ ret' = "false"
  /\ pc' = "Failed"

\* Fault variant of Fail: the error is noted and the scan goes on.
FailContinues(line) ==
  /\ out' = Append(out, line)
  /\ ret' = "false"
  /\ pc' = "Scanning"

\* log(line); return false;
Fail(line) ==
  /\ out' = Append(out, line)
  /\ ret' = "false"
  /\ pc' = "Failed"

\* Fault variant of Continue: the ++i of the for statement is missing.
ContinueNoIncrement(last) ==
  /\ i' = last
  /\ UNCHANGED <<pc, ret, out>>

\* The iteration ends normally: ++i of the for statement.
Continue(last) ==
  /\ i' = last + 1
  /\ UNCHANGED <<pc, ret, out>>

\* Fault variant of HasValue: the bound is off by one.
HasValueOffByOne(k, n) == k < n

\* i < argc - 1: a token follows the flag at index k.
HasValue(k, n) == k < n - 1

\* Fault variant of StepInvalid: zero is let through.
StepInvalidNegativeOnly(n) == n < 0

\* The positivity test of -logstep, -savestep and -checkstep.
StepInvalid(n) == n <= 0

\* Fault variant of DeviceInvalid: the device count itself is let through.
DeviceInvalidOffByOne(n, count) == n < 0 \/ n > count

\* The range test of -device.
DeviceInvalid(n, count) == n < 0 \/ n >= count

\* The lines of the help branch: usage, one line per device, the two notes.
RECURSIVE DeviceLines(_, _)
DeviceLines(d, ndev) ==
  IF d < ndev
  THEN <<LogLine(FmtDevice, <<d, getDeviceInfo(d)>>)>> \o DeviceLines(d + 1, ndev)
  ELSE <<>>

\* Fault variant of HelpLines: the devices are not listed.
HelpLinesNoDevices(l, s, c) ==
  <<LogLine(FmtUsage, <<l, s, c>>), LogLine(FmtFiles, <<>>), LogLine(FmtWorktodo, <<>>)>>

HelpLines(l, s, c) ==
  <<LogLine(FmtUsage, <<l, s, c>>)>>
  \o DeviceLines(0, getDeviceIDs(MAX_HELP_DEVICES))
  \o <<LogLine(FmtFiles, <<>>), LogLine(FmtWorktodo, <<>>)>>

\* -h, --help
Help(arg) ==
  /\ pc = "Scanning" /\ i < argc
  /\ StrEq(arg, "-h") \/ StrEq(arg, "--help")
  /\ argv' = ReadArg(argv, i, arg)
  /\ scanned' = Append(scanned, Unit(i, arg, FALSE, "", 0))
  /\ \E s \in MulOutcomes(logStep, SAVE_FACTOR), c \in MulOutcomes(logStep, CHECK_FACTOR) :
       out' = out \o HelpLines(logStep, s, c)
  /\ ret' = "false"
  /\ pc' = "HelpPrinted"
  /\ UNCHANGED <<argc, i, fields, nDevices>>

\* -logstep <N>
LogStepFlag(arg) ==
  /\ pc = "Scanning" /\ i < argc
  /\ StrEq(arg, "-logstep")
  /\ IF HasValue(i, argc)
     THEN \E val \in Tokens : \E n \in AtoiOutcomes(val) :
            /\ argv' = ReadArg(ReadArg(argv, i, arg), i + 1, val)
            /\ scanned' = Append(scanned, Unit(i, arg, TRUE, val, n))
            /\ logStep' = n
            /\ IF StepInvalid(n)
               THEN i' = i + 1 /\ Fail(LogLine(FmtInvalidLog, <<val>>))
               ELSE Continue(i + 1)
     ELSE /\ argv' = ReadArg(argv, i, arg)
          /\ scanned' = Append(scanned, Unit(i, arg, FALSE, "", 0))
          /\ Fail(LogLine(FmtExpectsLog, <<>>))
          /\ UNCHANGED <<i, logStep>>
  /\ UNCHANGED <<argc, clArgs, uid, saveStep, checkStep, device,
                 timeKernels, selfTest, useLegacy, safe, nDevices>>

\* -savestep <N>
SaveStepFlag(arg) ==
  /\ pc = "Scanning" /\ i < argc
  /\ StrEq(arg, "-savestep")
  /\ IF HasValue(i, argc)
     THEN \E val \in Tokens : \E n \in AtoiOutcomes(val) :
            /\ argv' = ReadArg(ReadArg(argv, i, arg), i + 1, val)
            /\ scanned' = Append(scanned, Unit(i, arg, TRUE, val, n))
            /\ saveStep' = n
            /\ IF StepInvalid(n)
               THEN i' = i + 1 /\ Fail(LogLine(FmtInvalidSave, <<val>>))
               ELSE Continue(i + 1)
     ELSE /\ argv' = ReadArg(argv, i, arg)
          /\ scanned' = Append(scanned, Unit(i, arg, FALSE, "", 0))
          /\ Fail(LogLine(FmtExpectsSave, <<>>))
          /\ UNCHANGED <<i, saveStep>>
  /\ UNCHANGED <<argc, clArgs, uid, logStep, checkStep, device,
                 timeKernels, selfTest, useLegacy, safe, nDevices>>

\* -checkstep <N>
CheckStepFlag(arg) ==
  /\ pc = "Scanning" /\ i < argc
  /\ StrEq(arg, "-checkstep")
  /\ IF HasValue(i, argc)
     THEN \E val \in Tokens : \E n \in AtoiOutcomes(val) :
            /\ argv' = ReadArg(ReadArg(argv, i, arg), i + 1, val)
            /\ scanned' = Append(scanned, Unit(i, arg, TRUE, val, n))
            /\ checkStep' = n
            /\ IF StepInvalid(n)
               THEN i' = i + 1 /\ Fail(LogLine(FmtInvalidCheck, <<val>>))
               ELSE Continue(i + 1)
     ELSE /\ argv' = ReadArg(argv, i, arg)
          /\ scanned' = Append(scanned, Unit(i, arg, FALSE, "", 0))
          /\ Fail(LogLine(FmtExpectsCheck, <<>>))
          /\ UNCHANGED <<i, checkStep>>
  /\ UNCHANGED <<argc, clArgs, uid, logStep, saveStep, device,
                 timeKernels, selfTest, useLegacy, safe, nDevices>>

\* Fault variant of UidFlag: the value is read as argv[i + 1] without moving
\* the index past it, so the next iteration scans it as a flag.
UidFlagRescansValue(arg) ==
  /\ pc = "Scanning" /\ i < argc
  /\ StrEq(arg, "-uid")
  /\ IF HasValue(i, argc)
     THEN \E val \in Tokens :
            /\ argv' = ReadArg(ReadArg(argv, i, arg), i + 1, val)
            /\ scanned' = Append(scanned, Unit(i, arg, TRUE, val, 0))
            /\ uid' = val
            /\ Continue(i)
     ELSE /\ argv' = ReadArg(argv, i, arg)
          /\ scanned' = Append(scanned, Unit(i, arg, FALSE, "", 0))
          /\ Fail(LogLine(FmtExpectsUid, <<>>))
          /\ UNCHANGED <<i, uid>>
  /\ UNCHANGED <<argc, clArgs, logStep, saveStep, checkStep, device,
                 timeKernels, selfTest, useLegacy, safe, nDevices>>

\* -uid user/machine
UidFlag(arg) ==
  /\ pc = "Scanning" /\ i < argc
  /\ StrEq(arg, "-uid")
  /\ IF HasValue(i, argc)
     THEN \E val \in Tokens :
            /\ argv' = ReadArg(ReadArg(argv, i, arg), i + 1, val)
            /\ scanned' = Append(scanned, Unit(i, arg, TRUE, val, 0))
            /\ uid' = val
            /\ Continue(i + 1)
     ELSE /\ argv' = ReadArg(argv, i, arg)
          /\ scanned' = Append(scanned, Unit(i, arg, FALSE, "", 0))
          /\ Fail(LogLine(FmtExpectsUid, <<>>))
          /\ UNCHANGED <<i, uid>>
  /\ UNCHANGED <<argc, clArgs, logStep, saveStep, checkStep, device,
                 timeKernels, selfTest, useLegacy, safe, nDevices>>

\* -supersafe
SuperSafeFlag(arg) ==
  /\ pc = "Scanning" /\ i < argc
  /\ StrEq(arg, "-supersafe")
  /\ argv' = ReadArg(argv, i, arg)
  /\ scanned' = Append(scanned, Unit(i, arg, FALSE, "", 0))
  /\ safe' = TRUE
  /\ Continue(i)
  /\ UNCHANGED <<argc, clArgs, uid, logStep, saveStep, checkStep, device,
                 timeKernels, selfTest, useLegacy, nDevices>>

\* -cl "<OpenCL compiler options>"
ClFlag(arg) ==
  /\ pc = "Scanning" /\ i < argc
  /\ StrEq(arg, "-cl")
  /\ IF HasValue(i, argc)
     THEN \E val \in Tokens :
            /\ argv' = ReadArg(ReadArg(argv, i, arg), i + 1, val)
            /\ scanned' = Append(scanned, Unit(i, arg, TRUE, val, 0))
            /\ clArgs' = val
            /\ Continue(i + 1)
     ELSE /\ argv' = ReadArg(argv, i, arg)
          /\ scanned' = Append(scanned, Unit(i, arg, FALSE, "", 0))
          /\ Fail(LogLine(FmtExpectsCl, <<>>))
          /\ UNCHANGED <<i, clArgs>>
  /\ UNCHANGED <<argc, uid, logStep, saveStep, checkStep, device,
                 timeKernels, selfTest, useLegacy, safe, nDevices>>

\* Fault variant of SelfTestFlag: the flag also clears safe, so that its
\* position relative to -supersafe matters.
SelfTestFlagClearsSafe(arg) ==
  /\ pc = "Scanning" /\ i < argc
  /\ StrEq(arg, "-selftest")
  /\ argv' = ReadArg(argv, i, arg)
  /\ scanned' = Append(scanned, Unit(i, arg, FALSE, "", 0))
  /\ selfTest' = TRUE
  /\ safe' = FALSE
  /\ Continue(i)
  /\ UNCHANGED <<argc, clArgs, uid, logStep, saveStep, checkStep, device,
                 timeKernels, useLegacy, nDevices>>

\* -selftest
SelfTestFlag(arg) ==
  /\ pc = "Scanning" /\ i < argc
  /\ StrEq(arg, "-selftest")
  /\ argv' = ReadArg(argv, i, arg)
  /\ scanned' = Append(scanned, Unit(i, arg, FALSE, "", 0))
  /\ selfTest' = TRUE
  /\ Continue(i)
  /\ UNCHANGED <<argc, clArgs, uid, logStep, saveStep, checkStep, device,
                 timeKernels, useLegacy, safe, nDevices>>

\* -time kernels
TimeFlag(arg) ==
  /\ pc = "Scanning" /\ i < argc
  /\ StrEq(arg, "-time")
  /\ IF HasValue(i, argc)
     THEN \E val \in Tokens :
            /\ argv' = ReadArg(ReadArg(argv, i, arg), i + 1, val)
            /\ scanned' = Append(scanned, Unit(i, arg, TRUE, val, 0))
            /\ IF StrEq(val, "kernels")
               THEN timeKernels' = TRUE /\ Continue(i + 1)
               ELSE /\ i' = i + 1
                    /\ Fail(LogLine(FmtExpectsTime, <<>>))
                    /\ UNCHANGED timeKernels
     ELSE /\ argv' = ReadArg(argv, i, arg)
          /\ scanned' = Append(scanned, Unit(i, arg, FALSE, "", 0))
          /\ Fail(LogLine(FmtExpectsTime, <<>>))
          /\ UNCHANGED <<i, timeKernels>>
  /\ UNCHANGED <<argc, clArgs, uid, logStep, saveStep, checkStep, device,
                 selfTest, useLegacy, safe, nDevices>>

\* -legacy
LegacyFlag(arg) ==
  /\ pc = "Scanning" /\ i < argc
  /\ StrEq(arg, "-legacy")
  /\ argv' = ReadArg(argv, i, arg)
  /\ scanned' = Append(scanned, Unit(i, arg, FALSE, "", 0))
  /\ useLegacy' = TRUE
  /\ Continue(i)
  /\ UNCHANGED <<argc, clArgs, uid, logStep, saveStep, checkStep, device,
                 timeKernels, selfTest, safe, nDevices>>

\* -device <N>
DeviceFlag(arg) ==
  /\ pc = "Scanning" /\ i < argc
  /\ StrEq(arg, "-device")
  /\ IF HasValue(i, argc)
     THEN \E val \in Tokens : \E n \in AtoiOutcomes(val) :
            /\ argv' = ReadArg(ReadArg(argv, i, arg), i + 1, val)
            /\ scanned' = Append(scanned, Unit(i, arg, TRUE, val, n))
            /\ device' = n
            /\ IF DeviceInvalid(n, getNumberOfDevices)
               THEN /\ i' = i + 1
                    /\ Fail(LogLine(FmtInvalidDev, <<n, getNumberOfDevices - 1>>))
               ELSE Continue(i + 1)
     ELSE /\ argv' = ReadArg(argv, i, arg)
          /\ scanned' = Append(scanned, Unit(i, arg, FALSE, "", 0))
          /\ Fail(LogLine(FmtExpectsDev, <<>>))
          /\ UNCHANGED <<i, device>>
  /\ UNCHANGED <<argc, clArgs, uid, logStep, saveStep, checkStep,
                 timeKernels, selfTest, useLegacy, safe, nDevices>>

\* The tokens one of the branches above takes.
Recognized(arg) == arg \in FlagTokens

\* Fault variant of Unknown: the token is skipped and the scan goes on.
UnknownSkipped(arg) ==
  /\ pc = "Scanning" /\ i < argc
  /\ ~Recognized(arg)
  /\ argv' = ReadArg(argv, i, arg)
  /\ scanned' = Append(scanned, Unit(i, arg, FALSE, "", 0))
  /\ Continue(i)
  /\ UNCHANGED <<argc, fields, nDevices>>

\* any other token
Unknown(arg) ==
  /\ pc = "Scanning" /\ i < argc
  /\ ~Recognized(arg)
  /\ argv' = ReadArg(argv, i, arg)
  /\ scanned' = Append(scanned, Unit(i, arg, FALSE, "", 0))
  /\ Fail(LogLine(FmtUnknown, <<arg>>))
  /\ UNCHANGED <<argc, i, fields, nDevices>>

\* Fault variant of EndOfInput: the loop stops one token early.
EndOfInputOffByOne ==
  /\ pc = "Scanning" /\ ~(i < argc - 1)
  /\ pc' = "Normalizing"
  /\ UNCHANGED <<argc, argv, i, ret, fields, nDevices, out, scanned>>

\* The loop condition i < argc fails: the scan is over.
EndOfInput ==
  /\ pc = "Scanning" /\ ~(i < argc)
  /\ pc' = "Normalizing"
  /\ UNCHANGED <<argc, argv, i, ret, fields, nDevices, out, scanned>>

\* Fault variant of FillDefault: the derived default replaces the step even
\* when it is set.
FillDefaultAlways(step, l, factor) == MulOutcomes(l, factor)

\* if (!step) { step = logStep * factor; }: the values step may hold afterwards.
FillDefault(step, l, factor) == IF step = 0 THEN MulOutcomes(l, factor) ELSE {step}

\* Fault variant of Clamp: a step below logStep is left alone.
ClampSkipped(step, l) == step

\* if (step < logStep) { step = logStep; }
Clamp(step, l) == IF step < l THEN l ELSE step

\* Fault variant of Truncate: the step is not made a multiple of logStep.
TruncateSkipped(step, l) == step

\* step -= step % logStep;
Truncate(step, l) == step - CRem(step, l)

\* Fault variant of IgnoreTime: kernel timing is never cleared.
IgnoreTimeNever(tk, l) == FALSE

\* timeKernels && logStep == 1
IgnoreTime(tk, l) == tk /\ l = 1

\* ------------------------------------------------------- Args::logConfig
\* Fault variant of TailStr: -uid is written also when uid is empty.
TailStrAlwaysUid(u, sf, cl, st, tk, lg) ==
  (" -uid " \o u)
  \o (IF sf THEN " -supersafe" ELSE "")
  \o (IF cl = "" THEN "" ELSE " -cl \"" \o cl \o "\"")
  \o (IF st THEN " -selftest" ELSE "")
  \o (IF tk THEN " -time kernels" ELSE "")
  \o (IF lg THEN " -legacy" ELSE "")

TailStr(u, sf, cl, st, tk, lg) ==
  LET uidStr == IF u = "" THEN "" ELSE " -uid " \o u
      clStr  == IF cl = "" THEN "" ELSE " -cl \"" \o cl \o "\""
  IN  uidStr
      \o (IF sf THEN " -supersafe" ELSE "")
      \o clStr
      \o (IF st THEN " -selftest" ELSE "")
      \o (IF tk THEN " -time kernels" ELSE "")
      \o (IF lg THEN " -legacy" ELSE "")

logConfig(l, s, c, tail) == LogLine(FmtConfig, <<l, s, c, tail>>)

\* The normalization pass on (logStep, saveStep, checkStep, timeKernels): the
\* derived defaults, the clamp, the truncation and the timeKernels rule.  The
\* results it may have (more than one only when a derived default overflows);
\* warn tells whether the warning is written.
NormalizePass(l, s0, c0, tk0) ==
  { [saveStep    |-> Truncate(Clamp(s, l), l),
     checkStep   |-> Truncate(Clamp(c, l), l),
     timeKernels |-> IF IgnoreTime(tk0, l) THEN FALSE ELSE tk0,
     warn        |-> IgnoreTime(tk0, l)] :
      s \in FillDefault(s0, l, SAVE_FACTOR), c \in FillDefault(c0, l, CHECK_FACTOR) }

\* The code after the loop: the assertion, the normalization pass, the echo,
\* return true.
Normalize ==
  /\ pc = "Normalizing"
  /\ IF logStep > 0
     THEN \E r \in NormalizePass(logStep, saveStep, checkStep, timeKernels) :
            /\ saveStep' = r.saveStep
            /\ checkStep' = r.checkStep
            /\ timeKernels' = r.timeKernels
            /\ out' = out
                 \o (IF r.warn THEN <<LogLine(FmtIgnoreTime, <<>>)>> ELSE <<>>)
                 \o <<logConfig(logStep, r.saveStep, r.checkStep,
                                TailStr(uid, safe, clArgs, selfTest, r.timeKernels, useLegacy))>>
            /\ ret' = "true"
            /\ pc' = "Succeeded"
     ELSE /\ pc' = "Aborted"
          /\ UNCHANGED <<saveStep, checkStep, timeKernels, out, ret>>
  /\ UNCHANGED <<argc, argv, i, clArgs, uid, logStep, device,
                 selfTest, useLegacy, safe, nDevices, scanned>>

Next ==
  \/ \E arg \in Tokens :
       \/ Help(arg)
       \/ LogStepFlag(arg)
       \/ SaveStepFlag(arg)
       \/ CheckStepFlag(arg)
       \/ UidFlag(arg)
       \/ SuperSafeFlag(arg)
       \/ ClFlag(arg)
       \/ SelfTestFlag(arg)
       \/ TimeFlag(arg)
       \/ LegacyFlag(arg)
       \/ DeviceFlag(arg)
       \/ Unknown(arg)
  \/ EndOfInput
  \/ Normalize

Spec == Init /\ [][Next]_vars

\* ------------------------------------------------------------ properties
Terminal == pc \in {"Succeeded", "Failed", "HelpPrinted", "Aborted"}

StepFlags == {"-logstep", "-savestep", "-checkstep"}

ValueFlags == {"-logstep", "-savestep", "-checkstep", "-uid", "-cl", "-device"}

\* The flag f was scanned in flag position and got a value.
HasFlag(f) == \E k \in 1 .. Len(scanned) : scanned[k].flag = f /\ scanned[k].hasVal

\* The value atoi gave the last occurrence of the flag f.
LastNum(f) ==
  LET k == CHOOSE k \in 1 .. Len(scanned) :
             /\ scanned[k].flag = f /\ scanned[k].hasVal
             /\ \A j \in (k + 1) .. Len(scanned) : ~(scanned[j].flag = f /\ scanned[j].hasVal)
  IN  scanned[k].num

\* The token t occurs in argv after the program name.
TokenIn(t) == \E k \in DOMAIN argv : k >= 1 /\ argv[k] = t

\* p = f * l as mathematical integers, for f > 0.
IsProduct(p, f, l) == p % f = 0 /\ p \div f = l

\* The number of lines of out written with the format fmt.
Count(fmt) == Cardinality({k \in 1 .. Len(out) : out[k].fmt = fmt})

\* C1: whenever parse returns true, logStep > 0 and saveStep and checkStep
\* are multiples of logStep that are at least logStep.
C1_Normalized ==
  ret = "true" =>
    /\ logStep > 0
    /\ saveStep >= logStep
    /\ saveStep % logStep = 0
    /\ checkStep >= logStep
    /\ checkStep % logStep = 0

\* A successful parse in which normalization changed both explicit steps.
C1_Witness ==
  /\ ret = "true"
  /\ HasFlag("-savestep") /\ saveStep # LastNum("-savestep")
  /\ HasFlag("-checkstep") /\ checkStep # LastNum("-checkstep")

\* C2: a successful parse with -logstep L and neither -savestep nor
\* -checkstep ends with saveStep = 500 * L and checkStep = 10 * L as
\* mathematical integers; with no flags at all it returns true with
\* logStep = 20000, saveStep = 10000000, checkStep = 200000, every boolean
\* false and device = -1.
C2_DerivedDefaults ==
  /\ (ret = "true" /\ HasFlag("-logstep")
        /\ ~TokenIn("-savestep") /\ ~TokenIn("-checkstep"))
       => /\ IsProduct(saveStep, SAVE_FACTOR, logStep)
          /\ IsProduct(checkStep, CHECK_FACTOR, logStep)
  /\ (Terminal /\ argc = 1)
       => /\ ret = "true"
          /\ logStep = 20000 /\ saveStep = 10000000 /\ checkStep = 200000
          /\ ~timeKernels /\ ~selfTest /\ ~useLegacy /\ ~safe
          /\ device = -1

\* The rule of C3 for one step: the explicit value s, the final logStep l and
\* the final value of the field.
ExplicitStepRule(s, l, final) ==
  /\ s > 0
  /\ s < l => final = l
  /\ s >= l => final = s - (s % l) /\ final <= s

\* C3: in a successful parse the last -savestep value S and the final logStep
\* L give saveStep = L when S < L and saveStep = S - (S mod L) <= S when
\* S >= L, whatever the order of the flags; likewise checkStep and -checkstep.
C3_ExplicitSteps ==
  ret = "true" =>
    /\ HasFlag("-savestep") => ExplicitStepRule(LastNum("-savestep"), logStep, saveStep)
    /\ HasFlag("-checkstep") => ExplicitStepRule(LastNum("-checkstep"), logStep, checkStep)

\* A successful parse where -savestep 12 comes before -logstep 7: saveStep
\* is truncated to 7.
C3_Witness ==
  /\ ret = "true"
  /\ Len(scanned) = 2
  /\ scanned[1].flag = "-savestep" /\ scanned[1].num = 12
  /\ scanned[2].flag = "-logstep" /\ scanned[2].num = 7
  /\ saveStep = 7

\* C4: once a -logstep, -savestep or -checkstep flag is scanned whose value
\* atoi turns into an integer <= 0, parse has returned false at that token:
\* it is the last token read.  No successful parse holds such a record.
C4_NonPositiveStepFails ==
  \A k \in 1 .. Len(scanned) :
    (scanned[k].flag \in StepFlags /\ scanned[k].hasVal /\ scanned[k].num <= 0)
      => /\ pc = "Failed" /\ ret = "false"
         /\ k = Len(scanned)
         /\ i = scanned[k].at + 1
         /\ DOMAIN argv = 0 .. i
         /\ argv[i] = scanned[k].tok

\* A parse that failed on -savestep abc after another flag.
C4_Witness ==
  /\ pc = "Failed"
  /\ Len(scanned) = 2
  /\ scanned[2].flag = "-savestep" /\ scanned[2].tok = "abc" /\ scanned[2].num = 0

\* C5: whenever parse returns true, device is -1 or an index below the
\* device count; and once a -device flag is scanned whose value is negative
\* or not below the device count, parse has returned false.
C5_DeviceRange ==
  /\ ret = "true" => (device = -1 \/ (0 <= device /\ device < nDevices))
  /\ \A k \in 1 .. Len(scanned) :
       (scanned[k].flag = "-device" /\ scanned[k].hasVal
          /\ (scanned[k].num < 0 \/ scanned[k].num >= nDevices))
         => pc = "Failed" /\ ret = "false" /\ k = Len(scanned)

\* -device with the value of the device count itself was refused.
C5_Witness ==
  /\ pc = "Failed"
  /\ nDevices > 0
  /\ Len(scanned) >= 1
  /\ scanned[Len(scanned)].flag = "-device"
  /\ scanned[Len(scanned)].hasVal
  /\ scanned[Len(scanned)].num = nDevices

\* C6: whenever parse returns true, timeKernels implies logStep > 1; a
\* successful parse with -time kernels ends, when logStep = 1, with
\* timeKernels false and exactly one warning, and otherwise with timeKernels
\* true and no warning.
C6_TimeKernels ==
  ret = "true" =>
    /\ timeKernels => logStep > 1
    /\ HasFlag("-time") =>
         IF logStep = 1
         THEN ~timeKernels /\ Count(FmtIgnoreTime) = 1
         ELSE timeKernels /\ logStep >= 2 /\ Count(FmtIgnoreTime) = 0

\* A successful parse of -time kernels -logstep 1.
C6_Witness ==
  /\ ret = "true"
  /\ Len(scanned) = 2
  /\ scanned[1].flag = "-time" /\ scanned[1].tok = "kernels"
  /\ scanned[2].flag = "-logstep" /\ scanned[2].num = 1
  /\ ~timeKernels

\* C7 as stated, in its first half and for the unrecognized token of its own
\* example: an argument vector that contains -bogus at any position after the
\* program name makes parse return false.
C7_AnyPosition ==
  (Terminal /\ TokenIn("-bogus")) => ret = "false"

\* C7, amended: once a token that is not a recognized flag is scanned in flag
\* position (not taken as the value of the flag before it), parse has
\* returned false with the diagnostic naming it and no later token is read.
C7_UnknownInFlagPosition ==
  \A k \in 1 .. Len(scanned) :
    ~Recognized(scanned[k].flag)
      => /\ pc = "Failed" /\ ret = "false"
         /\ k = Len(scanned)
         /\ i = scanned[k].at
         /\ DOMAIN argv = 0 .. i
         /\ out = <<LogLine(FmtUnknown, <<scanned[k].flag>>)>>

\* -bogus was scanned in flag position after a value flag and its value.
C7_Witness ==
  /\ pc = "Failed"
  /\ Len(scanned) = 2
  /\ scanned[1].hasVal
  /\ scanned[2].flag = "-bogus" /\ scanned[2].at = 3

\* The number of device lines the help branch writes.
HelpDeviceCount == IF nDevices < MAX_HELP_DEVICES THEN nDevices ELSE MAX_HELP_DEVICES

\* C8: after -h or --help is scanned, parse has written the usage text, one
\* line per device and the two notes, and nothing else (no echo); it has
\* returned false; no later token is read and no further step is possible (no
\* normalization): saveStep and checkStep hold their scanned values, 0 if unset.
C8_Help ==
  pc = "HelpPrinted" =>
    LET h == scanned[Len(scanned)] IN
    /\ ret = "false"
    /\ h.flag \in {"-h", "--help"} /\ h.at = i
    /\ DOMAIN argv = 0 .. i
    /\ \A k \in 1 .. (Len(scanned) - 1) : Recognized(scanned[k].flag) /\ scanned[k].flag # h.flag
    /\ ~ENABLED Next
    /\ Len(out) = HelpDeviceCount + 3
    /\ out[1].fmt = FmtUsage /\ out[1].args[1] = logStep
    /\ \A d \in 1 .. HelpDeviceCount : out[d + 1].fmt = FmtDevice /\ out[d + 1].args[1] = d - 1
    /\ out[Len(out) - 1].fmt = FmtFiles
    /\ out[Len(out)].fmt = FmtWorktodo
    /\ Count(FmtConfig) = 0
    /\ saveStep = (IF HasFlag("-savestep") THEN LastNum("-savestep") ELSE 0)
    /\ checkStep = (IF HasFlag("-checkstep") THEN LastNum("-checkstep") ELSE 0)

\* Help was asked after -savestep with a value below logStep, with a device
\* to list.
C8_Witness ==
  /\ pc = "HelpPrinted"
  /\ nDevices > 0
  /\ HasFlag("-savestep") /\ saveStep = 7
  /\ checkStep = 0

\* C9 as stated, in what it says of the return value: a value flag as the
\* last token of the argument vector makes parse return false, and so does
\* -time as the last token or before a token other than kernels.
C9_LastToken ==
  (Terminal /\ argc > 1 /\ DOMAIN argv = 0 .. (argc - 1))
    => /\ argv[argc - 1] \in ValueFlags \cup {"-time"} => ret = "false"
       /\ \A k \in 1 .. (argc - 2) :
            (argv[k] = "-time" /\ argv[k + 1] # "kernels") => ret = "false"

\* The diagnostic of a flag whose argument is missing.
FmtExpects(f) ==
  CASE f = "-logstep"   -> FmtExpectsLog
    [] f = "-savestep"  -> FmtExpectsSave
    [] f = "-checkstep" -> FmtExpectsCheck
    [] f = "-uid"       -> FmtExpectsUid
    [] f = "-cl"        -> FmtExpectsCl
    [] f = "-device"    -> FmtExpectsDev
    [] f = "-time"      -> FmtExpectsTime

\* C9, amended: a step that scans, in flag position, a value flag that is the
\* last token, or -time that is the last token or is followed by a token other
\* than kernels, returns false with the diagnostic of that flag and changes
\* no field (timeKernels keeps the value it had).
C9_MissingValue ==
  [][ (Len(scanned') = Len(scanned) + 1
         /\ LET h == scanned'[Len(scanned')] IN
            /\ h.flag \in ValueFlags \cup {"-time"}
            /\ (h.at = argc - 1 \/ (h.flag = "-time" /\ h.tok # "kernels")))
        => /\ ret' = "false" /\ pc' = "Failed"
           /\ UNCHANGED fields
           /\ out' = Append(out, LogLine(FmtExpects(scanned'[Len(scanned')].flag), <<>>))
    ]_vars

\* -uid was scanned in flag position as the last token, after -time kernels.
C9_Witness ==
  /\ pc = "Failed"
  /\ Len(scanned) = 2
  /\ scanned[2].flag = "-uid" /\ ~scanned[2].hasVal /\ scanned[2].at = argc - 1
  /\ timeKernels

DiagnosticFmts ==
  {FmtInvalidLog, FmtExpectsLog, FmtInvalidSave, FmtExpectsSave, FmtInvalidCheck,
   FmtExpectsCheck, FmtExpectsUid, FmtExpectsCl, FmtExpectsTime, FmtInvalidDev,
   FmtExpectsDev, FmtUnknown}

\* C10: a failed parse has written exactly one line, a diagnostic, and
\* returned false: neither the echo nor the timeKernels warning is written.
C10_OneDiagnostic ==
  pc = "Failed" =>
    /\ ret = "false"
    /\ Len(out) = 1
    /\ out[1].fmt \in DiagnosticFmts
    /\ Count(FmtConfig) = 0
    /\ Count(FmtIgnoreTime) = 0

\* A parse that failed on a device out of range after -time kernels.
C10_Witness ==
  /\ pc = "Failed"
  /\ timeKernels
  /\ out[1].fmt = FmtInvalidDev

\* C11: the normalization pass is idempotent: applied again to the
\* configuration of a successful parse, with the same logStep, it has one
\* result, which changes no field and writes no warning.
C11_Idempotent ==
  ret = "true" =>
    LET again == NormalizePass(logStep, saveStep, checkStep, timeKernels) IN
    /\ again # {}
    /\ \A r \in again :
         /\ r.saveStep = saveStep
         /\ r.checkStep = checkStep
         /\ r.timeKernels = timeKernels
         /\ ~r.warn

\* A successful parse whose derived defaults overflowed, with an explicit
\* -logstep and no explicit step.
C11_Witness ==
  /\ ret = "true"
  /\ logStep = 300000000
  /\ Len(scanned) = 1
  /\ saveStep # 0 /\ checkStep # 0

\* C12: the parse only moves forward.  A step from Scanning either reads a
\* token and stays in Scanning or ends in Failed or HelpPrinted, or, at the
\* end of the input and only there, reads nothing and enters Normalizing; a
\* step from Normalizing ends in Succeeded; Succeeded, Failed and HelpPrinted
\* are left by no step; parse has returned true exactly in Succeeded and
\* false exactly in Failed and HelpPrinted.
C12_ForwardOnly ==
  [][ /\ pc = "Scanning" =>
           \/ /\ i < argc
              /\ pc' \in {"Scanning", "Failed", "HelpPrinted"}
              /\ Len(scanned') = Len(scanned) + 1
              /\ pc' = "Scanning" => i' > i
           \/ /\ ~(i < argc)
              /\ pc' = "Normalizing"
              /\ argv' = argv /\ scanned' = scanned /\ i' = i
      /\ pc = "Normalizing" => pc' = "Succeeded"
      /\ pc \in {"Scanning", "Normalizing"}
      /\ pc' = "Normalizing" => pc = "Scanning"
      /\ pc' = "Succeeded" => pc = "Normalizing"
      /\ (ret' = "true") <=> (pc' = "Succeeded")
      /\ (ret' = "false") <=> (pc' \in {"Failed", "HelpPrinted"})
    ]_vars

\* A parse that went through four iterations of the scan, the normalization
\* and the return.
C12_Witness ==
  /\ pc = "Succeeded"
  /\ Len(scanned) = 4

\* The value token of the last occurrence of the flag f.
LastTok(f) ==
  LET k == CHOOSE k \in 1 .. Len(scanned) :
             /\ scanned[k].flag = f /\ scanned[k].hasVal
             /\ \A j \in (k + 1) .. Len(scanned) : ~(scanned[j].flag = f /\ scanned[j].hasVal)
  IN  scanned[k].tok

\* The flag f was scanned in flag position.
Scanned(f) == \E k \in 1 .. Len(scanned) : scanned[k].flag = f

\* The fields hold what the scanned tokens gave them, and their defaults
\* where no scanned token names them: nothing is normalized or rolled back.
FieldsAsScanned ==
  /\ logStep = (IF HasFlag("-logstep") THEN LastNum("-logstep") ELSE DEFAULT_LOGSTEP)
  /\ saveStep = (IF HasFlag("-savestep") THEN LastNum("-savestep") ELSE 0)
  /\ checkStep = (IF HasFlag("-checkstep") THEN LastNum("-checkstep") ELSE 0)
  /\ device = (IF HasFlag("-device") THEN LastNum("-device") ELSE -1)
  /\ uid = (IF HasFlag("-uid") THEN LastTok("-uid") ELSE "")
  /\ clArgs = (IF HasFlag("-cl") THEN LastTok("-cl") ELSE "")
  /\ safe = Scanned("-supersafe")
  /\ selfTest = Scanned("-selftest")
  /\ useLegacy = Scanned("-legacy")
  /\ timeKernels = (\E k \in 1 .. Len(scanned) :
                      scanned[k].flag = "-time" /\ scanned[k].hasVal /\ scanned[k].tok = "kernels")

\* Among the first n records of the history: the flag f got a value.
HasFlagIn(f, n) == \E k \in 1 .. n : scanned[k].flag = f /\ scanned[k].hasVal

\* Among the first n records of the history: the last record of the flag f.
LastIn(f, n) ==
  scanned[CHOOSE k \in 1 .. n :
            /\ scanned[k].flag = f /\ scanned[k].hasVal
            /\ \A j \in (k + 1) .. n : ~(scanned[j].flag = f /\ scanned[j].hasVal)]

\* C13 as stated, for the fields with a value: once parse has returned false
\* at the token of the last record, a field set by the tokens before it holds
\* the value they gave it, and a field no token names holds its default.
C13_KeepsEarlierValues ==
  ret = "false" =>
    LET n    == Len(scanned) - 1
        last == scanned[Len(scanned)].flag
    IN  /\ HasFlagIn("-logstep", n) => logStep = LastIn("-logstep", n).num
        /\ (~HasFlagIn("-logstep", n) /\ last # "-logstep") => logStep = DEFAULT_LOGSTEP
        /\ HasFlagIn("-savestep", n) => saveStep = LastIn("-savestep", n).num
        /\ (~HasFlagIn("-savestep", n) /\ last # "-savestep") => saveStep = 0
        /\ HasFlagIn("-checkstep", n) => checkStep = LastIn("-checkstep", n).num
        /\ (~HasFlagIn("-checkstep", n) /\ last # "-checkstep") => checkStep = 0
        /\ HasFlagIn("-device", n) => device = LastIn("-device", n).num
        /\ (~HasFlagIn("-device", n) /\ last # "-device") => device = -1
        /\ HasFlagIn("-uid", n) => uid = LastIn("-uid", n).tok
        /\ (~HasFlagIn("-uid", n) /\ last # "-uid") => uid = ""
        /\ HasFlagIn("-cl", n) => clArgs = LastIn("-cl", n).tok
        /\ (~HasFlagIn("-cl", n) /\ last # "-cl") => clArgs = ""

\* C13, amended: once parse has returned false, every field holds the value
\* the tokens read so far gave it, the failing one included (a rejected
\* -logstep, -savestep, -checkstep or -device value is stored before it is
\* tested and replaces the earlier value of that field), or its default where
\* no token names it; no later token is read, no further step is possible and
\* the normalization pass has not run (no echo, no warning, saveStep and
\* checkStep as scanned).
C13_FailFast ==
  ret = "false" =>
    /\ pc \in {"Failed", "HelpPrinted"}
    /\ Len(scanned) >= 1
    /\ scanned[Len(scanned)].at <= i /\ i <= scanned[Len(scanned)].at + 1
    /\ DOMAIN argv = 0 .. i
    /\ \A k \in 1 .. (Len(scanned) - 1) : scanned[k].at < scanned[Len(scanned)].at
    /\ ~ENABLED Next
    /\ FieldsAsScanned
    /\ Count(FmtConfig) = 0 /\ Count(FmtIgnoreTime) = 0

\* A parse that failed on a second -logstep, whose rejected value replaced
\* the 7 of the first.
C13_Witness ==
  /\ ret = "false"
  /\ Len(scanned) = 2
  /\ scanned[1].flag = "-logstep" /\ scanned[1].num = 7
  /\ scanned[2].flag = "-logstep" /\ scanned[2].hasVal
  /\ logStep <= 0

\* The string t occurs in the string s.
Contains(s, t) ==
  \E k \in 1 .. (Len(s) - Len(t) + 1) : SubSeq(s, k, k + Len(t) - 1) = t

\* The options the echo may show after the three steps, each with the
\* condition under which logConfig writes it.
EchoOptions ==
  { <<"-uid", uid # "">>, <<"-cl", clArgs # "">>, <<"-supersafe", safe>>,
    <<"-selftest", selfTest>>, <<"-time kernels", timeKernels>>, <<"-legacy", useLegacy>> }

\* The tail of the echo of a successful parse.
EchoTail == out[Len(out)].args[4]

\* C14 as stated, in what it says of the options: the echo of a successful
\* parse contains -uid, -cl, -supersafe, -selftest, -time kernels, -legacy
\* exactly when uid or clArgs is non-empty or the final boolean is true.
C14_ContainsExactlyWhen ==
  ret = "true" => \A o \in EchoOptions : Contains(EchoTail, o[1]) <=> o[2]

\* C14, amended: a successful parse writes exactly one echo, as its last
\* line, after the warning if there is one; it shows the final logStep,
\* saveStep and checkStep; it contains each option whose condition holds, and
\* an option whose condition does not hold only inside the echoed value of
\* uid or clArgs; a scanned -uid value is stored verbatim and echoed.
C14_Echo ==
  ret = "true" =>
    /\ Count(FmtConfig) = 1
    /\ out[Len(out)].fmt = FmtConfig
    /\ Len(out) = 1 + Count(FmtIgnoreTime)
    /\ Len(out) = 2 => out[1].fmt = FmtIgnoreTime
    /\ out[Len(out)].args[1] = logStep
    /\ out[Len(out)].args[2] = saveStep
    /\ out[Len(out)].args[3] = checkStep
    /\ \A o \in EchoOptions :
         /\ o[2] => Contains(EchoTail, " " \o o[1])
         /\ (~o[2] /\ ~Contains(uid, o[1]) /\ ~Contains(clArgs, o[1]))
              => ~Contains(EchoTail, o[1])
    /\ HasFlag("-uid") => uid = LastTok("-uid")
    /\ uid # "" => Contains(EchoTail, " -uid " \o uid)
    /\ clArgs # "" => Contains(EchoTail, " -cl \"" \o clArgs \o "\"")

\* A successful parse of -uid alice/box1 -time kernels.
C14_Witness ==
  /\ ret = "true"
  /\ uid = "alice/box1" /\ timeKernels
  /\ EchoTail = " -uid alice/box1 -time kernels"

\* What one step of the scan reads and how far it moves the index: the flag
\* at index i >= 1 and, for a flag that got a value, the token at i + 1, both
\* below argc; no token already read changes; when the scan goes on, the
\* index has grown by 2 for a value flag or -time and by 1 otherwise.
ScanStep ==
  (pc = "Scanning" /\ i < argc) =>
    LET h == scanned'[Len(scanned')] IN
    /\ Len(scanned') = Len(scanned) + 1
    /\ i >= 1 /\ h.at = i
    /\ DOMAIN argv = 0 .. (i - 1)
    /\ DOMAIN argv' = 0 .. (IF h.hasVal THEN i + 1 ELSE i)
    /\ \A j \in DOMAIN argv' : j < argc
    /\ \A j \in DOMAIN argv : argv'[j] = argv[j]
    /\ argv'[i] = h.flag
    /\ h.hasVal => argv'[i + 1] = h.tok
    /\ i' >= i
    /\ pc' = "Scanning" =>
         /\ i' = i + (IF h.flag \in ValueFlags \cup {"-time"} THEN 2 ELSE 1)
         /\ i' <= argc

\* The number of steps parse may still take, at most.
StepsLeft ==
  CASE pc = "Scanning"    -> (argc - i) + 2
    [] pc = "Normalizing" -> 1
    [] OTHER              -> 0

\* C15: the scan terminates: every step lowers the bound StepsLeft, which is
\* never negative, and a step is possible until parse has returned; each
\* step that goes on moves the index forward, by 1 for a boolean flag and by 2
\* for a value flag or -time; only tokens at indices 1 .. argc - 1 are read.
C15_ScanTerminates ==
  /\ [][/\ ScanStep
        /\ argv'[0] = ProgName /\ argc' = argc
        /\ StepsLeft' < StepsLeft /\ StepsLeft' >= 0]_vars
  /\ [](Terminal \/ ENABLED Next)

\* A scan that read a value flag with its value and two boolean flags, up to
\* the last index.
C15_Witness ==
  /\ pc = "Succeeded"
  /\ argc = 5 /\ i = 5
  /\ Len(scanned) = 3
  /\ scanned[2].hasVal

\* The unit of the record r is one the scan accepts, whatever stands before
\* or after it.
UnitAccepted(r) ==
  \/ r.flag \in {"-supersafe", "-selftest", "-legacy"}
  \/ r.flag \in {"-uid", "-cl"} /\ r.hasVal
  \/ r.flag \in StepFlags /\ r.hasVal /\ r.num > 0
  \/ r.flag = "-device" /\ r.hasVal /\ r.num >= 0 /\ r.num < nDevices
  \/ r.flag = "-time" /\ r.hasVal /\ r.tok = "kernels"

\* The configuration: the fields of Args.
Config ==
  [logStep |-> logStep, saveStep |-> saveStep, checkStep |-> checkStep,
   device |-> device, uid |-> uid, clArgs |-> clArgs, safe |-> safe,
   selfTest |-> selfTest, useLegacy |-> useLegacy, timeKernels |-> timeKernels]

\* The configurations the scanned units give, by what each flag's last unit
\* says and by nothing else: neither the positions of the units nor the units
\* of other flags between them.
ConfigOfUnits ==
  LET l  == IF HasFlag("-logstep") THEN LastNum("-logstep") ELSE DEFAULT_LOGSTEP
      s0 == IF HasFlag("-savestep") THEN LastNum("-savestep") ELSE 0
      c0 == IF HasFlag("-checkstep") THEN LastNum("-checkstep") ELSE 0
      tk == \E k \in 1 .. Len(scanned) : scanned[k].flag = "-time"
  IN  { [logStep |-> l, saveStep |-> r.saveStep, checkStep |-> r.checkStep,
         device |-> IF HasFlag("-device") THEN LastNum("-device") ELSE -1,
         uid |-> IF HasFlag("-uid") THEN LastTok("-uid") ELSE "",
         clArgs |-> IF HasFlag("-cl") THEN LastTok("-cl") ELSE "",
         safe |-> Scanned("-supersafe"),
         selfTest |-> Scanned("-selftest"),
         useLegacy |-> Scanned("-legacy"),
         timeKernels |-> r.timeKernels] : r \in NormalizePass(l, s0, c0, tk) }

\* C16: whether parse returns true is decided unit by unit, and the
\* configuration of a successful parse is given by the last unit of each
\* flag alone, so that neither depends on the order of the units; where
\* 500 * logStep fits an int there is exactly one such configuration.
C16_OrderIndependent ==
  /\ pc \in {"Normalizing", "Succeeded"}
       => \A k \in 1 .. Len(scanned) : UnitAccepted(scanned[k])
  /\ pc \in {"Failed", "HelpPrinted"} => ~UnitAccepted(scanned[Len(scanned)])
  /\ pc = "Succeeded" => ret = "true" /\ Config \in ConfigOfUnits
  /\ (pc = "Succeeded" /\ MulFits(logStep, SAVE_FACTOR))
       => Cardinality(ConfigOfUnits) = 1

\* A successful parse of -logstep 7 -logstep 1: the second unit gives logStep.
C16_Witness ==
  /\ pc = "Succeeded"
  /\ Len(scanned) = 2
  /\ scanned[1].flag = "-logstep" /\ scanned[1].num = 7
  /\ scanned[2].flag = "-logstep" /\ scanned[2].num = 1
  /\ logStep = 1 /\ saveStep = 500 /\ checkStep = 10

\* The values the derived default factor * logStep may end as, once
\* normalized.
DerivedSteps(l, factor) ==
  { Truncate(Clamp(v, l), l) : v \in MulOutcomes(l, factor) }

\* C17: the sentinel 0 never collides with an explicit value: when the scan
\* is over, saveStep is 0 exactly when no -savestep was scanned, and likewise
\* checkStep; in a successful parse a step whose flag was not scanned is the
\* one derived from logStep (500 * logStep or 10 * logStep wherever the
\* product fits an int), and a step whose flag was scanned is the explicit
\* value, clamped and truncated, never the derived default.
C17_SentinelNeverCollides ==
  /\ pc = "Normalizing" =>
       /\ saveStep = 0 <=> ~HasFlag("-savestep")
       /\ checkStep = 0 <=> ~HasFlag("-checkstep")
  /\ pc = "Succeeded" =>
       /\ ~HasFlag("-savestep") =>
            /\ saveStep \in DerivedSteps(logStep, SAVE_FACTOR)
            /\ MulFits(logStep, SAVE_FACTOR) => saveStep = SAVE_FACTOR * logStep
       /\ ~HasFlag("-checkstep") =>
            /\ checkStep \in DerivedSteps(logStep, CHECK_FACTOR)
            /\ MulFits(logStep, CHECK_FACTOR) => checkStep = CHECK_FACTOR * logStep
       /\ HasFlag("-savestep") =>
            saveStep = Truncate(Clamp(LastNum("-savestep"), logStep), logStep)
       /\ HasFlag("-checkstep") =>
            checkStep = Truncate(Clamp(LastNum("-checkstep"), logStep), logStep)

\* A successful parse of -savestep 7 alone: saveStep is the explicit 20000
\* after clamping, far from the derived 10000000, and checkStep is derived.
C17_Witness ==
  /\ pc = "Succeeded"
  /\ Len(scanned) = 1
  /\ scanned[1].flag = "-savestep" /\ scanned[1].num = 7
  /\ saveStep = 20000
  /\ checkStep = 200000

\* C18: a scan step at -uid or -cl with a token after it stores that token,
\* whatever it is, as the field, and does nothing else with it: no other
\* field changes, nothing is written, parse does not return, the history
\* gets the one record of the flag, and the index moves past the value, so
\* that the next token scanned as a flag is the one after it.
C18_ValueVerbatim ==
  [][(pc = "Scanning" /\ i < argc - 1 /\ argv'[i] \in {"-uid", "-cl"}) =>
       /\ argv'[i] = "-uid" => uid' = argv'[i + 1] /\ clArgs' = clArgs
       /\ argv'[i] = "-cl" => clArgs' = argv'[i + 1] /\ uid' = uid
       /\ argv'[i + 1] \in Tokens
       /\ UNCHANGED <<logStep, saveStep, checkStep, device, timeKernels,
                      selfTest, useLegacy, safe, out, ret>>
       /\ pc' = "Scanning"
       /\ Len(scanned') = Len(scanned) + 1
       /\ i' = i + 2]_vars

\* A successful parse of -uid -h -cl -bogus: the flag name -h and the
\* unknown -bogus are stored as values, no help is printed and nothing is
\* reported as not understood.
C18_Witness ==
  /\ pc = "Succeeded"
  /\ Len(scanned) = 2
  /\ scanned[1].flag = "-uid" /\ scanned[2].flag = "-cl" /\ scanned[2].at = 3
  /\ uid = "-h" /\ clArgs = "-bogus"
  /\ Len(out) = 1

====
